---- MODULE Spec2Model ----
(***************************************************************************)
(* HCI core (net/bluetooth/hci_core.c): buffer pool, command queue, credit *)
(* gate, the command fiber, the RX fiber, the completion correlator and    *)
(* the bring-up sequence.                                                  *)
(*                                                                         *)
(* A buffer is a pool index 1..NUM_BUFS; NULL is 0.  The three nano_fifos  *)
(* are sequences of buffer indices.  Each fiber is a process with a        *)
(* position; a fiber's step runs from one wait to the next, as fibers are  *)
(* not preempted.  Caller tasks and the transport (bt_recv) interleave     *)
(* with the fibers at those waits.                                         *)
(***************************************************************************)
EXTENDS Integers, Sequences, FiniteSets, TLC

VARIABLES
    free_bufs,   \* nano_fifo free_bufs: sequence of buffer indices
    bufs,        \* buffers[]: per buffer its type, opcode, sync and payload
    dev,         \* struct bt_dev: ncmd, ncmd_sem, sent_cmd, drv and the
                 \* controller's record (features[4], le_features[0], le_mtu,
                 \* le_pkts, bdaddr, version)
    cmd_queue,   \* dev.cmd_queue
    rx_queue,    \* dev.rx_queue
    cmd,         \* hci_cmd_fiber: position and its local buf
    rx,          \* hci_rx_fiber: position and its local buf
    task,        \* caller tasks of bt_hci_cmd_send / bt_hci_cmd_send_sync
    ret,         \* what the last call that returned to a caller task returned
    sync_sem,    \* the sync_sem on each caller's stack (count)
    ini,         \* the task running hci_init: position, local buf, result
    held,        \* buffers the transport took with bt_buf_get and still holds
    ctl,         \* the controller behind the driver: command awaiting its answer
    hist,        \* history: what has been enqueued, sent, completed, signalled
    view         \* the packet view (data - buf, len) of one buffer, and its use

vars == <<free_bufs, bufs, dev, cmd_queue, rx_queue, cmd, rx, task, ret, sync_sem,
          ini, held, ctl, hist, view>>

(***************************************************************************)
(* Program constants and bounds.                                           *)
(***************************************************************************)
NUM_BUFS == 5

\* the two masks tested on features[4].  Their values are in bluetooth/hci.h;
\* the code uses them only in the tests lmp_bredr_capable and lmp_le_capable,
\* so features[4] is kept as the set of those masks whose bit is set.
BT_LMP_NO_BREDR == "BT_LMP_NO_BREDR"

BT_LMP_LE == "BT_LMP_LE"

\* number of caller tasks besides the one running bring-up
NumTasks == 1

\* bt_hci_cmd_send / bt_hci_cmd_send_sync calls that enqueue, in one behaviour
MaxCalls == 2

\* packets the transport delivers through bt_recv, in one behaviour
MaxRecv == 2

NULL == 0

BufIds == 1 .. NUM_BUFS

Tasks == 1 .. NumTasks

\* the caller whose stack holds the sync_sem of hci_init's synchronous commands
InitTask == NumTasks + 1

SyncOwners == 1 .. (NumTasks + 1)

\* opcodes the caller tasks issue, and opcodes events may carry
TaskOps == {"RESET", "READ_BD_ADDR"}

EvtOps == TaskOps

\* values of the ncmd field of a Command Complete / Command Status event
NcmdVals == {0, 1, 2}

\* values of features[4] a controller reports: no bit, NO_BREDR, LE, both
FeatureVals == SUBSET {BT_LMP_NO_BREDR, BT_LMP_LE}

\* values of le_max_len / acl_max_len a controller reports
MtuVals == {0, 27}

\* values of the status byte of a Command Complete
StatusVals == {0, 1}

\* BT_BUF_MAX_DATA, the size of buf->buf, is set in bluetooth/buf.h; the
\* model takes a small capacity
BT_BUF_MAX_DATA == 20

\* buf->len is unsigned, 8 bits wide
LenWidth == 256

\* sizeof of the headers the core adds and pulls
CmdHdrSize == 3

EvtHdrSize == 2

CmdCompleteSize == 3

CmdStatusSize == 4

AclHdrSize == 4

\* values of drv->head_reserve
ReserveVals == {0, 1, 2}

\* the view of a buffer nobody follows
NoView == [head |-> 0, len |-> 0, use |-> "none"]

\* the drivers a caller may pass to bt_driver_register: two with both open
\* and send, one without open, one without send
Drivers ==
    [d \in 1 .. 4 |-> [open |-> d # 3, send |-> d # 4]]

\* results of drv->open()
OpenVals == {"OK", "EIO"}

\* the contents of a buffer nobody has written since it was last released
\* wire: for a buffer the transport filled, what is known of its bytes
Blank == [type |-> "NONE", opcode |-> "NONE", sync |-> NULL, wire |-> "NONE"]

\* outcomes of reading through the null dev.sent_cmd in hci_cmd_done: the
\* access traps, or it reads some word that differs from / equals the opcode
NullDeref == {"trap", "miss", "hit"}

(***************************************************************************)
(* The code, as operators on a record m of the memory it touches:          *)
(* free_bufs, bufs, dev, cmd_queue, sync_sem, plus buf and ret (the value  *)
(* a function returns), trap (the access through NULL trapped) and wild    *)
(* (a write went through a pointer read from address 0).                   *)
(***************************************************************************)
Mem == [free_bufs |-> free_bufs, bufs |-> bufs, dev |-> dev,
        cmd_queue |-> cmd_queue, sync_sem |-> sync_sem,
        buf |-> NULL, ret |-> "NONE", trap |-> FALSE, wild |-> FALSE]

\* nano_fifo_get(&free_bufs) and the resets of bt_buf_get_reserve
bt_buf_get_reserve(m) ==
    IF m.free_bufs = <<>>
    THEN [m EXCEPT !.buf = NULL]
    ELSE LET b == Head(m.free_bufs)
         IN [m EXCEPT !.free_bufs = Tail(@), !.bufs[b] = Blank, !.buf = b]

\* q with b added.  The free buffers are interchangeable (a buffer's contents
\* are dead once it is free and nothing compares buffer addresses), so the
\* arrival order of nano_fifo free_bufs is not kept: the pool is held in index
\* order, a buffer released twice being in it twice.
PoolAdd(q, b) ==
    LET k == Cardinality({i \in DOMAIN q : q[i] <= b})
    IN SubSeq(q, 1, k) \o <<b>> \o SubSeq(q, k + 1, Len(q))

\* nano_fifo_put(&free_bufs, buf); what the buffer held is dead from here on
bt_buf_put(m, b) ==
    [m EXCEPT !.free_bufs = PoolAdd(@, b), !.bufs[b] = Blank]

bt_hci_cmd_create(m, opcode) ==
    LET g == bt_buf_get_reserve(m)
    IN IF g.buf = NULL
       THEN g
       ELSE [g EXCEPT !.bufs[g.buf].type = "CMD",
                      !.bufs[g.buf].opcode = opcode,
                      !.bufs[g.buf].sync = NULL]

\* a faulty bt_hci_cmd_send: the command goes to the head of cmd_queue
bt_hci_cmd_send_front(m, opcode, buf) ==
    LET c == IF buf = NULL THEN bt_hci_cmd_create(m, opcode)
                           ELSE [m EXCEPT !.buf = buf]
    IN IF c.buf = NULL
       THEN [c EXCEPT !.ret = "ENOBUFS"]
       ELSE [c EXCEPT !.cmd_queue = <<c.buf>> \o @, !.ret = "OK"]

bt_hci_cmd_send(m, opcode, buf) ==
    LET c == IF buf = NULL THEN bt_hci_cmd_create(m, opcode)
                           ELSE [m EXCEPT !.buf = buf]
    IN IF c.buf = NULL
       THEN [c EXCEPT !.ret = "ENOBUFS"]
       ELSE [c EXCEPT !.cmd_queue = Append(@, c.buf), !.ret = "OK"]

\* a faulty bt_hci_cmd_send_sync: a failed bt_hci_cmd_create is not noticed
\* and the caller waits
bt_hci_cmd_send_sync_nocheck(m, opcode, buf, who) ==
    LET c == IF buf = NULL THEN bt_hci_cmd_create(m, opcode)
                           ELSE [m EXCEPT !.buf = buf]
    IN IF c.buf = NULL
       THEN [c EXCEPT !.sync_sem[who] = 0, !.ret = "WAIT"]
       ELSE [c EXCEPT !.sync_sem[who] = 0,
                      !.bufs[c.buf].sync = who,
                      !.cmd_queue = Append(@, c.buf),
                      !.ret = "WAIT"]

\* bt_hci_cmd_send_sync up to nano_sem_take_wait(&sync_sem), where the caller
\* blocks (ret = "WAIT"); who is the caller whose stack holds sync_sem
bt_hci_cmd_send_sync(m, opcode, buf, who) ==
    LET c == IF buf = NULL THEN bt_hci_cmd_create(m, opcode)
                           ELSE [m EXCEPT !.buf = buf]
    IN IF c.buf = NULL
       THEN [c EXCEPT !.ret = "ENOBUFS"]
       ELSE [c EXCEPT !.sync_sem[who] = 0,
                      !.bufs[c.buf].sync = who,
                      !.cmd_queue = Append(@, c.buf),
                      !.ret = "WAIT"]

lmp_bredr_capable(d) == BT_LMP_NO_BREDR \notin d.features4

\* a faulty lmp_le_capable: the test is on the NO_BREDR mask
lmp_le_capable_wrongbit(d) == BT_LMP_NO_BREDR \in d.features4

lmp_le_capable(d) == BT_LMP_LE \in d.features4

\* pkt is what buf->data holds, the bytes the transport wrote: status, val
\* (the first value of the return parameters) and num (the second)
hci_reset_complete(m, pkt) == m

\* val stands for hci_version, hci_revision and manufacturer together
hci_read_local_ver_complete(m, pkt) ==
    IF pkt.status # 0 THEN m
    ELSE [m EXCEPT !.dev.version = pkt.val]

hci_read_features_complete(m, pkt) ==
    [m EXCEPT !.dev.features4 = pkt.val]

\* acl_max_len and acl_max_num are 16 bits wide, dev.le_pkts is a uint8_t
hci_read_buffer_size_complete(m, pkt) ==
    IF pkt.status # 0 THEN m
    ELSE IF m.dev.le_mtu # 0 THEN m
    ELSE [m EXCEPT !.dev.le_mtu = pkt.val, !.dev.le_pkts = pkt.num % 256]

hci_read_bdaddr_complete(m, pkt) ==
    IF pkt.status # 0 THEN m
    ELSE [m EXCEPT !.dev.bdaddr = pkt.val]

\* le_max_num is one byte
hci_le_read_buffer_size_complete(m, pkt) ==
    IF pkt.status # 0 THEN m
    ELSE [m EXCEPT !.dev.le_mtu = pkt.val, !.dev.le_pkts = pkt.num % 256]

hci_le_read_features_complete(m, pkt) ==
    [m EXCEPT !.dev.le_features = pkt.val]

\* the switch (opcode) of hci_cmd_complete
hci_cmd_complete_switch(m, pkt) ==
    LET opcode == pkt.eop
    IN CASE opcode = "RESET" -> hci_reset_complete(m, pkt)
         [] opcode = "READ_LOCAL_VERSION_INFO" ->
                hci_read_local_ver_complete(m, pkt)
         [] opcode = "READ_LOCAL_FEATURES" ->
                hci_read_features_complete(m, pkt)
         [] opcode = "READ_BUFFER_SIZE" ->
                hci_read_buffer_size_complete(m, pkt)
         [] opcode = "READ_BD_ADDR" -> hci_read_bdaddr_complete(m, pkt)
         [] opcode = "LE_READ_BUFFER_SIZE" ->
                hci_le_read_buffer_size_complete(m, pkt)
         [] opcode = "LE_READ_LOCAL_FEATURES" ->
                hci_le_read_features_complete(m, pkt)
         [] OTHER -> m

\* a faulty hci_cmd_done: the opcode of the event is not compared with that
\* of sent_cmd
hci_cmd_done_anyop(m, opcode, ub) ==
    LET sent == m.dev.sent_cmd
    IN IF sent = NULL
       THEN CASE ub = "trap" -> [m EXCEPT !.trap = TRUE]
              [] ub = "miss" -> m
              [] OTHER -> [m EXCEPT !.wild = TRUE]
       ELSE LET m1 == [m EXCEPT !.dev.sent_cmd = NULL]
                m2 == IF m.bufs[sent].sync # NULL
                      THEN [m1 EXCEPT !.sync_sem[m.bufs[sent].sync] = @ + 1]
                      ELSE m1
            IN bt_buf_put(m2, sent)

\* ub: the outcome of dev.sent_cmd->opcode when dev.sent_cmd is NULL
hci_cmd_done(m, opcode, ub) ==
    LET sent == m.dev.sent_cmd
    IN IF sent = NULL
       THEN CASE ub = "trap" -> [m EXCEPT !.trap = TRUE]
              [] ub = "miss" -> m
              [] OTHER -> [m EXCEPT !.wild = TRUE]
       ELSE IF m.bufs[sent].opcode # opcode
       THEN m
       ELSE LET m1 == [m EXCEPT !.dev.sent_cmd = NULL]
                m2 == IF m.bufs[sent].sync # NULL
                      THEN [m1 EXCEPT !.sync_sem[m.bufs[sent].sync] = @ + 1]
                      ELSE m1
            IN bt_buf_put(m2, sent)

\* a faulty refill: it gives a credit without looking at dev.ncmd
CreditRefill_always(m, pkt) ==
    IF pkt.encmd # 0
    THEN [m EXCEPT !.dev.ncmd = 1, !.dev.ncmd_sem = @ + 1]
    ELSE m

\* the refill both hci_cmd_complete and hci_cmd_status end with
CreditRefill(m, pkt) ==
    IF pkt.encmd # 0 /\ m.dev.ncmd = 0
    THEN [m EXCEPT !.dev.ncmd = 1, !.dev.ncmd_sem = @ + 1]
    ELSE m

hci_cmd_complete(m, pkt, ub) ==
    LET opcode == pkt.eop
        m1 == hci_cmd_complete_switch(m, pkt)
        m2 == hci_cmd_done(m1, opcode, ub)
    IN IF m2.trap THEN m2 ELSE CreditRefill(m2, pkt)

hci_cmd_status(m, pkt, ub) ==
    LET opcode == pkt.eop
        m2 == hci_cmd_done(m, opcode, ub)
    IN IF m2.trap THEN m2 ELSE CreditRefill(m2, pkt)

hci_event(m, buf, pkt, ub) ==
    LET h == CASE pkt.evt = "CMD_COMPLETE" -> hci_cmd_complete(m, pkt, ub)
               [] pkt.evt = "CMD_STATUS" -> hci_cmd_status(m, pkt, ub)
               [] OTHER -> m
    IN IF h.trap THEN h ELSE bt_buf_put(h, buf)

\* both branches of the length check release the buffer
hci_acl(m, buf) == bt_buf_put(m, buf)

\* one pass of the loop body of hci_rx_fiber on the buffer it dequeued
hci_rx_fiber(m, buf, pkt, ub) ==
    CASE pkt.type = "ACL" -> hci_acl(m, buf)
      [] pkt.type = "EVT" -> hci_event(m, buf, pkt, ub)
      [] OTHER -> m

\* a faulty hci_cmd_fiber: it takes the newest command of cmd_queue
hci_cmd_fiber_get_newest(m) ==
    [m EXCEPT !.buf = m.cmd_queue[Len(m.cmd_queue)],
              !.cmd_queue = SubSeq(@, 1, Len(@) - 1),
              !.dev.ncmd = 0]

\* hci_cmd_fiber from nano_fifo_get_wait to the call of drv->send: buf is the
\* buffer handed to the driver
hci_cmd_fiber_get(m) ==
    [m EXCEPT !.buf = Head(m.cmd_queue),
              !.cmd_queue = Tail(@),
              !.dev.ncmd = 0]

\* hci_cmd_fiber after drv->send returned
hci_cmd_fiber_sent(m, buf) ==
    [m EXCEPT !.dev.sent_cmd = buf]

bt_buf_get(m) == bt_buf_get_reserve(m)

\* nano_fifo_put(&dev.rx_queue, buf)
bt_recv(rq, buf) == Append(rq, buf)

\* a faulty bt_driver_register: the driver is stored whatever the slot holds
\* and whatever the driver provides
bt_driver_register_always(d, drv) == [drv |-> drv, ret |-> "OK"]

\* d is dev; the result is the new dev.drv and the value returned
bt_driver_register(d, drv) ==
    IF d.drv # NULL THEN [drv |-> d.drv, ret |-> "EALREADY"]
    ELSE IF ~Drivers[drv].open \/ ~Drivers[drv].send
    THEN [drv |-> d.drv, ret |-> "EINVAL"]
    ELSE [drv |-> drv, ret |-> "OK"]

bt_driver_unregister(d, drv) == [d EXCEPT !.drv = NULL]

(***************************************************************************)
(* The packet view of a buffer: v.head is buf->data - buf->buf, v.len is   *)
(* buf->len.                                                               *)
(***************************************************************************)
\* the data and len assignments of bt_buf_get_reserve
ViewReserve(reserve_head, use) ==
    [head |-> reserve_head, len |-> 0, use |-> use]

bt_buf_add(v, len) == [v EXCEPT !.len = (@ + len) % LenWidth]

bt_buf_push(v, len) ==
    [v EXCEPT !.head = @ - len, !.len = (@ + len) % LenWidth]

bt_buf_pull(v, len) ==
    [v EXCEPT !.head = @ + len, !.len = (@ - len + LenWidth) % LenWidth]

bt_buf_headroom(v) == v.head

bt_buf_tailroom(v) == BT_BUF_MAX_DATA - bt_buf_headroom(v) - v.len

\* the pulls of hci_event and of the handler it dispatches to
ViewEvent(v, evt) ==
    LET h == bt_buf_pull(v, EvtHdrSize)
    IN CASE evt = "CMD_COMPLETE" -> bt_buf_pull(h, CmdCompleteSize)
         [] evt = "CMD_STATUS" -> bt_buf_pull(h, CmdStatusSize)
         [] OTHER -> h

\* the pull of hci_acl
ViewAcl(v) == bt_buf_pull(v, AclHdrSize)

(***************************************************************************)
(* Packets.  What a received buffer holds is read by the RX fiber alone,   *)
(* so its bytes are drawn when the RX fiber reads them: wire = "ANY" says  *)
(* the transport may have written any packet, wire = an opcode that the    *)
(* controller answered the command of that opcode.                         *)
(***************************************************************************)
Packet(type, evt, eop, encmd, status, val) ==
    [type |-> type, evt |-> evt, eop |-> eop, encmd |-> encmd,
     status |-> status, val |-> val, num |-> 0]

NoPacket == Packet("NONE", "NONE", "NONE", 0, 0, 0)

\* the return parameters the model keeps, as <<status, value>>: byte 4 of the
\* feature page, le_max_len, acl_max_len
Params(op) ==
    CASE op = "READ_LOCAL_FEATURES" -> {0} \X FeatureVals
      [] op \in {"READ_BUFFER_SIZE", "LE_READ_BUFFER_SIZE"} ->
             StatusVals \X MtuVals
      [] OTHER -> {<<0, 0>>}

Packets ==
    {Packet("EVT", e, op, n, 0, 0) :
        e \in {"CMD_COMPLETE", "CMD_STATUS"}, op \in EvtOps, n \in NcmdVals}
    \cup {Packet("EVT", "OTHER", "NONE", 0, 0, 0),
          Packet("ACL", "NONE", "NONE", 0, 0, 0),
          Packet("UNKNOWN", "NONE", "NONE", 0, 0, 0)}

\* one Command Complete for the command, granting credit
Answers(op) ==
    {Packet("EVT", "CMD_COMPLETE", op, n, p[1], p[2]) :
        n \in NcmdVals \ {0}, p \in Params(op)}

Contents(wire) == IF wire = "ANY" THEN Packets ELSE Answers(wire)

(***************************************************************************)
(* History, kept beside the program state: tkt numbers the commands in the *)
(* order they were put on cmd_queue, sent lists the numbers in the order   *)
(* they were handed to drv->send, done[w] says that a completion with the  *)
(* opcode of w's synchronous command was processed while that command was  *)
(* sent_cmd, gives[w] counts the gives on w's sync_sem since its call,     *)
(* seen holds the watched opcodes whose Command Complete the RX fiber has  *)
(* handled.                                                                *)
(***************************************************************************)
Commit(m) ==
    /\ free_bufs' = m.free_bufs
    /\ bufs' = m.bufs
    /\ dev' = m.dev
    /\ cmd_queue' = m.cmd_queue
    /\ sync_sem' = m.sync_sem

\* the history after a call of bt_hci_cmd_send(_sync) that returned m
HistCall(m, who, sync) ==
    IF m.ret \notin {"OK", "WAIT"}
    THEN hist
    ELSE [hist EXCEPT !.nenq = @ + 1,
                      !.tkt[m.buf] = hist.nenq + 1,
                      !.done[who] = IF sync THEN FALSE ELSE @,
                      !.gives[who] = IF sync THEN 0 ELSE @]

\* the completion event pkt names the opcode of the command that is sent_cmd
Matches(pkt) ==
    /\ pkt.type = "EVT"
    /\ pkt.evt \in {"CMD_COMPLETE", "CMD_STATUS"}
    /\ dev.sent_cmd # NULL
    /\ bufs[dev.sent_cmd].opcode = pkt.eop

\* the history after the RX fiber handled pkt and left the memory m
HistRx(m, pkt) ==
    [hist EXCEPT
        !.done = [w \in SyncOwners |->
                    @[w] \/ (Matches(pkt) /\ bufs[dev.sent_cmd].sync = w)],
        !.gives = [w \in SyncOwners |->
                    IF m.sync_sem[w] > sync_sem[w]
                    THEN @[w] + (m.sync_sem[w] - sync_sem[w])
                    ELSE @[w]],
        !.seen = IF pkt.type = "EVT" /\ pkt.evt = "CMD_COMPLETE"
                    /\ ~m.trap /\ pkt.eop \in hist.watch
                 THEN @ \cup {pkt.eop}
                 ELSE @]

(***************************************************************************)
(* Caller tasks.                                                           *)
(***************************************************************************)
TaskSend(t) ==
    /\ task[t] = "idle"
    /\ hist.nenq < MaxCalls
    /\ \E op \in TaskOps :
          LET m == bt_hci_cmd_send(Mem, op, NULL)
          IN /\ Commit(m)
             /\ task' = task
             /\ ret' = m.ret
             /\ hist' = HistCall(m, t, FALSE)
    /\ UNCHANGED <<rx_queue, cmd, rx, ini, held, ctl, view>>

TaskSendSync(t) ==
    /\ task[t] = "idle"
    /\ hist.nenq < MaxCalls
    /\ \E op \in TaskOps :
          LET m == bt_hci_cmd_send_sync(Mem, op, NULL, t)
          IN /\ Commit(m)
             /\ task' = [task EXCEPT ![t] =
                            IF m.ret = "WAIT" THEN "wait" ELSE "idle"]
             /\ ret' = IF m.ret = "WAIT" THEN ret ELSE m.ret
             /\ hist' = HistCall(m, t, TRUE)
    /\ UNCHANGED <<rx_queue, cmd, rx, ini, held, ctl, view>>

\* nano_sem_take_wait(&sync_sem) returns and bt_hci_cmd_send_sync returns 0
TaskWake(t) ==
    /\ task[t] = "wait"
    /\ sync_sem[t] > 0
    /\ sync_sem' = [sync_sem EXCEPT ![t] = @ - 1]
    /\ task' = [task EXCEPT ![t] = "idle"]
    /\ ret' = "OK"
    /\ hist' = [hist EXCEPT !.done[t] = FALSE, !.gives[t] = 0]
    /\ UNCHANGED <<free_bufs, bufs, dev, cmd_queue, rx_queue, cmd, rx, ini,
                   held, ctl, view>>

(***************************************************************************)
(* The transport: it takes a buffer with bt_buf_get, fills it with a       *)
(* packet of its choosing and hands it to bt_recv.                         *)
(***************************************************************************)
DriverRecv ==
    /\ hist.nrecv < MaxRecv
    /\ free_bufs # <<>>
    /\ LET g == bt_buf_get(Mem)
       IN /\ Commit([g EXCEPT !.bufs[g.buf].type = "RX",
                              !.bufs[g.buf].wire = "ANY"])
          /\ rx_queue' = bt_recv(rx_queue, g.buf)
    /\ hist' = [hist EXCEPT !.nrecv = @ + 1]
    /\ UNCHANGED <<cmd, rx, task, ret, ini, held, ctl, view>>

(***************************************************************************)
(* hci_cmd_fiber.                                                          *)
(***************************************************************************)
CmdTakeCredit ==
    /\ cmd.pc = "sem"
    /\ dev.ncmd_sem > 0
    /\ dev' = [dev EXCEPT !.ncmd_sem = @ - 1]
    /\ cmd' = [cmd EXCEPT !.pc = "get"]
    /\ UNCHANGED <<free_bufs, bufs, cmd_queue, rx_queue, rx, task, ret,
                   sync_sem, ini, held, ctl, hist, view>>

\* dequeue, ncmd = 0, drv->send(buf); the driver returns at once and sent_cmd
\* is recorded, or it blocks and the other fibers run before it returns
SendStep(blocks) ==
    LET g == hci_cmd_fiber_get(Mem)
        m == IF blocks THEN g ELSE hci_cmd_fiber_sent(g, g.buf)
    IN /\ Commit(m)
       /\ cmd' = IF blocks THEN [pc |-> "send", buf |-> g.buf]
                           ELSE [pc |-> "sem", buf |-> NULL]
       /\ hist' = [hist EXCEPT !.sent = Append(@, hist.tkt[g.buf]),
                               !.tkt[g.buf] = 0]

CmdSend ==
    /\ cmd.pc = "get"
    /\ cmd_queue # <<>>
    /\ \E blocks \in BOOLEAN : SendStep(blocks)
    /\ UNCHANGED <<rx_queue, rx, task, ret, ini, held, ctl, view>>

\* the same step, with the controller behind the driver receiving the command
CmdSendWire ==
    /\ cmd.pc = "get"
    /\ cmd_queue # <<>>
    /\ \E blocks \in BOOLEAN : SendStep(blocks)
    /\ ctl' = Append(ctl, bufs[hci_cmd_fiber_get(Mem).buf].opcode)
    /\ UNCHANGED <<rx_queue, rx, task, ret, ini, held, view>>

CmdSendReturn ==
    /\ cmd.pc = "send"
    /\ Commit(hci_cmd_fiber_sent(Mem, cmd.buf))
    /\ cmd' = [pc |-> "sem", buf |-> NULL]
    /\ UNCHANGED <<rx_queue, rx, task, ret, ini, held, ctl, hist, view>>

(***************************************************************************)
(* hci_rx_fiber.  RxGet is the return of nano_fifo_get_wait: rx.buf is the *)
(* buffer, rx.pkt what it holds.  RxHandle is the dispatch on buf->type,   *)
(* the handlers running to their end without yielding.  The fiber stops    *)
(* at "exit" (the return on an unknown type), at "trap" (the access        *)
(* through NULL trapped) or at "wild" (it wrote through the pointers read  *)
(* from address 0: nothing is known of the memory from there on).          *)
(***************************************************************************)
RxGet ==
    /\ rx.pc = "wait"
    /\ rx_queue # <<>>
    /\ \E pkt \in Contents(bufs[Head(rx_queue)].wire) :
          rx' = [pc |-> "handle", buf |-> Head(rx_queue), pkt |-> pkt]
    /\ rx_queue' = Tail(rx_queue)
    /\ UNCHANGED <<free_bufs, bufs, dev, cmd_queue, cmd, task, ret, sync_sem,
                   ini, held, ctl, hist, view>>

\* the outcomes of hci_cmd_done's read of dev.sent_cmd->opcode
Outcomes(pkt) ==
    IF pkt.type = "EVT" /\ pkt.evt \in {"CMD_COMPLETE", "CMD_STATUS"}
       /\ dev.sent_cmd = NULL
    THEN NullDeref
    ELSE {"miss"}

RxHandle ==
    /\ rx.pc = "handle"
    /\ \E ub \in Outcomes(rx.pkt) :
          LET m == hci_rx_fiber(Mem, rx.buf, rx.pkt, ub)
          IN /\ Commit(m)
             /\ rx' = CASE m.trap -> [rx EXCEPT !.pc = "trap", !.pkt = NoPacket]
                        [] m.wild -> [pc |-> "wild", buf |-> NULL, pkt |-> NoPacket]
                        [] rx.pkt.type \notin {"ACL", "EVT"} ->
                               [rx EXCEPT !.pc = "exit", !.pkt = NoPacket]
                        [] OTHER ->
                               [pc |-> "wait", buf |-> NULL, pkt |-> NoPacket]
             /\ hist' = HistRx(m, rx.pkt)
    /\ UNCHANGED <<rx_queue, cmd, task, ret, ini, held, ctl, view>>

(***************************************************************************)
(* The state after free_queue_init, cmd_queue_init and rx_queue_init.      *)
(***************************************************************************)
InitCore ==
    /\ free_bufs = [i \in 1 .. NUM_BUFS |-> i]
    /\ bufs = [b \in BufIds |-> Blank]
    /\ dev = [ncmd |-> 1, ncmd_sem |-> 1, sent_cmd |-> NULL, features4 |-> {},
              le_mtu |-> 0, drv |-> 1, le_pkts |-> 0, bdaddr |-> 0,
              version |-> 0, le_features |-> 0]
    /\ cmd_queue = <<>>
    /\ rx_queue = <<>>
    /\ cmd = [pc |-> "sem", buf |-> NULL]
    /\ rx = [pc |-> "wait", buf |-> NULL, pkt |-> NoPacket]
    /\ task = [t \in Tasks |-> "idle"]
    /\ ret = "NONE"
    /\ sync_sem = [w \in SyncOwners |-> 0]
    /\ held = {}
    /\ ctl = <<>>
    /\ view = NoView

NoHist(watch) ==
    [nenq |-> 0, tkt |-> [b \in BufIds |-> 0], sent |-> <<>>, nrecv |-> 0,
     done |-> [w \in SyncOwners |-> FALSE], gives |-> [w \in SyncOwners |-> 0],
     seen |-> {}, watch |-> watch]

(***************************************************************************)
(* A holder of buffers: the public bt_buf_get and bt_buf_put.              *)
(***************************************************************************)
PoolGet ==
    /\ free_bufs # <<>>
    /\ LET g == bt_buf_get(Mem)
       IN Commit(g) /\ held' = held \cup {g.buf}
    /\ UNCHANGED <<rx_queue, cmd, rx, task, ret, ini, ctl, hist, view>>

PoolPut ==
    /\ \E b \in held :
          /\ Commit(bt_buf_put(Mem, b))
          /\ held' = held \ {b}
    /\ UNCHANGED <<rx_queue, cmd, rx, task, ret, ini, ctl, hist, view>>

(***************************************************************************)
(* The controller answers each command the driver was handed with one      *)
(* Command Complete of that opcode; the transport takes a buffer for it    *)
(* and calls bt_recv.                                                      *)
(***************************************************************************)
ControllerAnswer ==
    /\ ctl # <<>>
    /\ free_bufs # <<>>
    /\ LET g == bt_buf_get(Mem)
       IN /\ Commit([g EXCEPT !.bufs[g.buf].type = "RX",
                              !.bufs[g.buf].wire = Head(ctl)])
          /\ rx_queue' = bt_recv(rx_queue, g.buf)
    /\ ctl' = Tail(ctl)
    /\ hist' = [hist EXCEPT !.nrecv = @ + 1]
    /\ UNCHANGED <<cmd, rx, task, ret, ini, held, view>>

(***************************************************************************)
(* hci_init, run by the task that called bt_init.  Each step is one call   *)
(* of bt_hci_cmd_send or bt_hci_cmd_send_sync (up to its wait) with the    *)
(* code around it; the return values hci_init ignores are ignored.         *)
(***************************************************************************)
AsyncNext ==
    [reset |-> <<"RESET", "features">>,
     features |-> <<"READ_LOCAL_FEATURES", "version">>,
     version |-> <<"READ_LOCAL_VERSION_INFO", "bdaddr">>,
     le_features |-> <<"LE_READ_LOCAL_FEATURES", "le_bufsize">>,
     le_bufsize |-> <<"LE_READ_BUFFER_SIZE", "evmask">>]

HciInitSend ==
    /\ ini.pc \in DOMAIN AsyncNext
    /\ LET m == bt_hci_cmd_send(Mem, AsyncNext[ini.pc][1], NULL)
       IN /\ Commit(m)
          /\ hist' = HistCall(m, InitTask, FALSE)
    /\ ini' = [ini EXCEPT !.pc = AsyncNext[ini.pc][2]]
    /\ UNCHANGED <<rx_queue, cmd, rx, task, ret, held, ctl, view>>

HciInitBdAddr ==
    /\ ini.pc = "bdaddr"
    /\ LET m == bt_hci_cmd_send_sync(Mem, "READ_BD_ADDR", NULL, InitTask)
       IN /\ Commit(m)
          /\ hist' = HistCall(m, InitTask, TRUE)
          /\ ini' = [ini EXCEPT !.pc = IF m.ret = "WAIT" THEN "bdaddr_wait"
                                                        ELSE "le_check"]
    /\ UNCHANGED <<rx_queue, cmd, rx, task, ret, held, ctl, view>>

WakeNext ==
    [bdaddr_wait |-> "le_check", evmask_wait |-> "bredr", lehs_wait |-> "done"]

\* nano_sem_take_wait(&sync_sem) returns in bt_hci_cmd_send_sync
HciInitWake ==
    /\ ini.pc \in DOMAIN WakeNext
    /\ sync_sem[InitTask] > 0
    /\ sync_sem' = [sync_sem EXCEPT ![InitTask] = @ - 1]
    /\ ini' = [ini EXCEPT !.pc = WakeNext[ini.pc],
                          !.ret = IF ini.pc = "lehs_wait" THEN "OK" ELSE @]
    /\ hist' = [hist EXCEPT !.done[InitTask] = FALSE, !.gives[InitTask] = 0]
    /\ UNCHANGED <<free_bufs, bufs, dev, cmd_queue, rx_queue, cmd, rx, task,
                   ret, held, ctl, view>>

hci_init_le_check(d) == IF ~lmp_le_capable(d) THEN "ENODEV" ELSE "NONE"

HciInitLeCheck ==
    /\ ini.pc = "le_check"
    /\ ini' = IF hci_init_le_check(dev) = "ENODEV"
              THEN [ini EXCEPT !.pc = "done", !.ret = "ENODEV"]
              ELSE [ini EXCEPT !.pc = "le_features"]
    /\ UNCHANGED <<free_bufs, bufs, dev, cmd_queue, rx_queue, cmd, rx, task,
                   ret, sync_sem, held, ctl, hist, view>>

\* bt_hci_cmd_create, and on success bt_hci_cmd_send_sync with the buffer
CreateAndSendSync(m, opcode) ==
    LET c == bt_hci_cmd_create(m, opcode)
    IN IF c.buf = NULL
       THEN [c EXCEPT !.ret = "ENOBUFS"]
       ELSE bt_hci_cmd_send_sync(c, opcode, c.buf, InitTask)

HciInitEvMask ==
    /\ ini.pc = "evmask"
    /\ LET m == CreateAndSendSync(Mem, "SET_EVENT_MASK")
       IN /\ Commit(m)
          /\ hist' = HistCall(m, InitTask, TRUE)
          /\ ini' = IF m.ret = "ENOBUFS"
                    THEN [ini EXCEPT !.pc = "done", !.ret = "ENOBUFS"]
                    ELSE [ini EXCEPT !.pc = "evmask_wait"]
    /\ UNCHANGED <<rx_queue, cmd, rx, task, ret, held, ctl, view>>

\* the optional READ_BUFFER_SIZE of a BR/EDR capable controller
HciInitBufSize ==
    /\ ini.pc = "bredr"
    /\ lmp_bredr_capable(dev)
    /\ LET m == IF dev.le_mtu = 0
                THEN bt_hci_cmd_send(Mem, "READ_BUFFER_SIZE", NULL)
                ELSE Mem
       IN /\ Commit(m)
          /\ hist' = HistCall(m, InitTask, FALSE)
    /\ ini' = [ini EXCEPT !.pc = "lehs"]
    /\ UNCHANGED <<rx_queue, cmd, rx, task, ret, held, ctl, view>>

HciInitHostSupp ==
    /\ ini.pc = "lehs"
    /\ LET m == CreateAndSendSync(Mem, "LE_WRITE_LE_HOST_SUPP")
       IN /\ Commit(m)
          /\ hist' = HistCall(m, InitTask, TRUE)
          /\ ini' = IF m.ret = "ENOBUFS"
                    THEN [ini EXCEPT !.pc = "done", !.ret = "ENOBUFS"]
                    ELSE [ini EXCEPT !.pc = "lehs_wait"]
    /\ UNCHANGED <<rx_queue, cmd, rx, task, ret, held, ctl, view>>

HciInitLeOnly ==
    /\ ini.pc = "bredr"
    /\ ~lmp_bredr_capable(dev)
    /\ ini' = [ini EXCEPT !.pc = "done", !.ret = "OK"]
    /\ UNCHANGED <<free_bufs, bufs, dev, cmd_queue, rx_queue, cmd, rx, task,
                   ret, sync_sem, held, ctl, hist, view>>

\* caller tasks, both fibers and a transport that may deliver any packet
Init ==
    /\ InitCore
    /\ ini = [pc |-> "off", buf |-> NULL, ret |-> "NONE"]
    /\ hist = NoHist({})

Next ==
    \/ \E t \in Tasks : TaskSend(t)
    \/ \E t \in Tasks : TaskSendSync(t)
    \/ \E t \in Tasks : TaskWake(t)
    \/ DriverRecv
    \/ CmdTakeCredit
    \/ CmdSend
    \/ CmdSendReturn
    \/ RxGet
    \/ RxHandle

Spec == Init /\ [][Next]_vars

\* caller tasks and the command fiber, a holder of buffers, a silent transport
NextPool ==
    \/ PoolGet
    \/ PoolPut
    \/ \E t \in Tasks : TaskSend(t)
    \/ \E t \in Tasks : TaskSendSync(t)
    \/ CmdTakeCredit
    \/ CmdSend
    \/ CmdSendReturn

SpecPool == Init /\ [][NextPool]_vars

\* the opcodes hci_init issues
InitOps ==
    {"RESET", "READ_LOCAL_FEATURES", "READ_LOCAL_VERSION_INFO", "READ_BD_ADDR",
     "LE_READ_LOCAL_FEATURES", "LE_READ_BUFFER_SIZE", "SET_EVENT_MASK",
     "READ_BUFFER_SIZE", "LE_WRITE_LE_HOST_SUPP"}

\* bt_init has set up the queues, started the fibers and opened the driver,
\* and calls hci_init; the controller answers every command
InitBringup ==
    /\ InitCore
    /\ ini = [pc |-> "reset", buf |-> NULL, ret |-> "NONE"]
    /\ hist = NoHist(InitOps)

NextBringup ==
    \/ HciInitSend
    \/ HciInitBdAddr
    \/ HciInitWake
    \/ HciInitLeCheck
    \/ HciInitEvMask
    \/ HciInitBufSize
    \/ HciInitHostSupp
    \/ HciInitLeOnly
    \/ CmdTakeCredit
    \/ CmdSendWire
    \/ CmdSendReturn
    \/ ControllerAnswer
    \/ RxGet
    \/ RxHandle

SpecBringup == InitBringup /\ [][NextBringup]_vars

\* another user of the pool, which starts taking buffers with bt_buf_get once
\* hci_init has sent LE_READ_BUFFER_SIZE
LatePoolGet ==
    /\ ini.pc \in {"evmask", "evmask_wait", "bredr", "lehs", "lehs_wait"}
    /\ PoolGet

(***************************************************************************)
(* Transport binding and bt_init, from the state the program is loaded in: *)
(* dev and the fifos zeroed, no fiber started.                             *)
(***************************************************************************)
InitLoaded ==
    /\ free_bufs = <<>>
    /\ bufs = [b \in BufIds |-> Blank]
    /\ dev = [ncmd |-> 0, ncmd_sem |-> 0, sent_cmd |-> NULL, features4 |-> {},
              le_mtu |-> 0, drv |-> NULL, le_pkts |-> 0, bdaddr |-> 0,
              version |-> 0, le_features |-> 0]
    /\ cmd_queue = <<>>
    /\ rx_queue = <<>>
    /\ cmd = [pc |-> "off", buf |-> NULL]
    /\ rx = [pc |-> "off", buf |-> NULL, pkt |-> NoPacket]
    /\ task = [t \in Tasks |-> "idle"]
    /\ ret = "NONE"
    /\ sync_sem = [w \in SyncOwners |-> 0]
    /\ held = {}
    /\ ctl = <<>>
    /\ view = NoView
    /\ ini = [pc |-> "off", buf |-> NULL, ret |-> "NONE"]
    /\ hist = NoHist(InitOps)

DriverRegister(drv) ==
    /\ LET r == bt_driver_register(dev, drv)
       IN /\ dev' = [dev EXCEPT !.drv = r.drv]
          /\ ret' = r.ret
    /\ UNCHANGED <<free_bufs, bufs, cmd_queue, rx_queue, cmd, rx, task,
                   sync_sem, ini, held, ctl, hist, view>>

DriverUnregister ==
    /\ \E drv \in DOMAIN Drivers : dev' = bt_driver_unregister(dev, drv)
    /\ ret' = "NONE"
    /\ UNCHANGED <<free_bufs, bufs, cmd_queue, rx_queue, cmd, rx, task,
                   sync_sem, ini, held, ctl, hist, view>>

\* bt_init up to the call of hci_init; ini.ret is what bt_init returns
BtInit ==
    /\ ini.pc = "off"
    /\ IF dev.drv = NULL
       THEN /\ ini' = [ini EXCEPT !.ret = "ENODEV"]
            /\ UNCHANGED <<free_bufs, dev, cmd, rx>>
       ELSE /\ free_bufs' = [i \in 1 .. NUM_BUFS |-> i]
            /\ dev' = [dev EXCEPT !.ncmd = 1, !.ncmd_sem = 1]
            /\ cmd' = [pc |-> "sem", buf |-> NULL]
            /\ rx' = [pc |-> "wait", buf |-> NULL, pkt |-> NoPacket]
            /\ \E err \in OpenVals :
                  ini' = IF err # "OK"
                         THEN [ini EXCEPT !.pc = "done", !.ret = err]
                         ELSE [ini EXCEPT !.pc = "reset", !.ret = "NONE"]
    /\ UNCHANGED <<bufs, cmd_queue, rx_queue, task, ret, sync_sem, held, ctl,
                   hist, view>>

NextDriver ==
    \/ \E drv \in DOMAIN Drivers : DriverRegister(drv)
    \/ DriverUnregister
    \/ BtInit
    \/ NextBringup

SpecDriver == InitLoaded /\ [][NextDriver]_vars

(***************************************************************************)
(* The life of one buffer's view: a command built by bt_hci_cmd_create,    *)
(* given parameters with bt_buf_add and framed by the driver with          *)
(* bt_buf_push within the reserved headroom; or a packet the transport     *)
(* wrote into a buffer from bt_buf_get and the RX fiber's handlers pull.   *)
(***************************************************************************)
ViewCmdCreate ==
    /\ view.use \in {"none", "done"}
    /\ \E r \in ReserveVals :
          view' = bt_buf_add(ViewReserve(r, "cmd"), CmdHdrSize)
    /\ UNCHANGED <<free_bufs, bufs, dev, cmd_queue, rx_queue, cmd, rx, task,
                   ret, sync_sem, ini, held, ctl, hist>>

\* hci_init's bt_buf_add of the parameters of SET_EVENT_MASK (8 bytes) and
\* of LE_WRITE_LE_HOST_SUPP (2 bytes)
ViewAddParams ==
    /\ view.use = "cmd"
    /\ \E n \in {2, 8} : view' = [bt_buf_add(view, n) EXCEPT !.use = "params"]
    /\ UNCHANGED <<free_bufs, bufs, dev, cmd_queue, rx_queue, cmd, rx, task,
                   ret, sync_sem, ini, held, ctl, hist>>

\* drv->send prepends its framing in the headroom it asked for
ViewDriverPush ==
    /\ view.use \in {"cmd", "params"}
    /\ \E n \in 0 .. bt_buf_headroom(view) :
          view' = [bt_buf_push(view, n) EXCEPT !.use = "done"]
    /\ UNCHANGED <<free_bufs, bufs, dev, cmd_queue, rx_queue, cmd, rx, task,
                   ret, sync_sem, ini, held, ctl, hist>>

\* the transport takes a buffer with bt_buf_get and writes a packet of any
\* length that fits
ViewRecv ==
    /\ view.use \in {"none", "done"}
    /\ \E n \in 0 .. BT_BUF_MAX_DATA :
          view' = bt_buf_add(ViewReserve(0, "rx"), n)
    /\ UNCHANGED <<free_bufs, bufs, dev, cmd_queue, rx_queue, cmd, rx, task,
                   ret, sync_sem, ini, held, ctl, hist>>

ViewRxEvent ==
    /\ view.use = "rx"
    /\ \E evt \in {"CMD_COMPLETE", "CMD_STATUS", "OTHER"} :
          view' = [ViewEvent(view, evt) EXCEPT !.use = "done"]
    /\ UNCHANGED <<free_bufs, bufs, dev, cmd_queue, rx_queue, cmd, rx, task,
                   ret, sync_sem, ini, held, ctl, hist>>

ViewRxAcl ==
    /\ view.use = "rx"
    /\ view' = [ViewAcl(view) EXCEPT !.use = "done"]
    /\ UNCHANGED <<free_bufs, bufs, dev, cmd_queue, rx_queue, cmd, rx, task,
                   ret, sync_sem, ini, held, ctl, hist>>

NextView ==
    \/ ViewCmdCreate
    \/ ViewAddParams
    \/ ViewDriverPush
    \/ ViewRecv
    \/ ViewRxEvent
    \/ ViewRxAcl

SpecView == Init /\ [][NextView]_vars

\* bring-up while that user takes buffers and returns them with bt_buf_put
NextBringupShared ==
    \/ NextBringup
    \/ LatePoolGet
    \/ PoolPut

SpecBringupShared == InitBringup /\ [][NextBringupShared]_vars

(***************************************************************************)
(* Properties.                                                             *)
(***************************************************************************)
\* the step in which the command fiber hands a command to drv->send
Handoff == cmd.pc = "get" /\ cmd'.pc # "get"

\* the step in which the RX fiber runs the handlers on the packet it dequeued
Handled == rx.pc = "handle" /\ rx'.pc # "handle"

\* the packet is a Command Complete or a Command Status
Completion(pkt) ==
    pkt.type = "EVT" /\ pkt.evt \in {"CMD_COMPLETE", "CMD_STATUS"}

\* C1: at most one command is outstanding: whenever the command fiber hands a
\* command to drv->send, the command handed over before it (if any) has been
\* cleared from sent_cmd by its completion, so sent_cmd is empty.
C1_OneOutstanding == [][Handoff => dev.sent_cmd = NULL]_vars

\* the number of places that hold buffer b
Places(b) ==
    Cardinality({i \in DOMAIN free_bufs : free_bufs[i] = b})
    + Cardinality({i \in DOMAIN cmd_queue : cmd_queue[i] = b})
    + Cardinality({i \in DOMAIN rx_queue : rx_queue[i] = b})
    + (IF dev.sent_cmd = b THEN 1 ELSE 0)
    + (IF cmd.buf = b THEN 1 ELSE 0)
    + (IF rx.buf = b THEN 1 ELSE 0)
    + (IF ini.buf = b THEN 1 ELSE 0)
    + (IF b \in held THEN 1 ELSE 0)

\* C2: buffer conservation: each of the NUM_BUFS buffers is in exactly one
\* place: the free pool, cmd_queue, rx_queue, the sent_cmd slot, or the hands
\* of one caller, handler or driver.
C2_Conservation == \A b \in BufIds : Places(b) = 1

\* C3: bt_hci_cmd_send_sync returns 0 to a task only after a Command Complete
\* or Command Status with the opcode of its command was processed while its
\* buffer was sent_cmd, and its sync_sem is given exactly once: never more
\* than once, and once by the time it returns.
C3_SyncReturn ==
    [][/\ \A t \in Tasks :
             (task[t] = "wait" /\ task'[t] = "idle")
                 => (hist.done[t] /\ hist.gives[t] = 1)
       /\ \A w \in SyncOwners : hist.gives'[w] <= 1]_vars

\* a waiting caller whose completion has been processed and signalled
C3_Witness ==
    \E t \in Tasks :
        task[t] = "wait" /\ sync_sem[t] = 1 /\ hist.done[t] /\ hist.gives[t] = 1

\* C4: a completion whose opcode differs from that of the non-empty sent_cmd
\* leaves sent_cmd, ncmd and the credit semaphore as they were and wakes no
\* synchronous caller.
C4_MismatchNoChange ==
    [][(/\ Handled
        /\ Completion(rx.pkt)
        /\ dev.sent_cmd # NULL
        /\ bufs[dev.sent_cmd].opcode # rx.pkt.eop)
          => (/\ dev'.sent_cmd = dev.sent_cmd
              /\ dev'.ncmd = dev.ncmd
              /\ dev'.ncmd_sem = dev.ncmd_sem
              /\ sync_sem' = sync_sem)]_vars

\* C5: a completion processed while sent_cmd is empty only logs: the RX fiber
\* does not fault, no sync_sem is given, no buffer but the event's own is
\* released, and sent_cmd stays empty.
C5_EmptyCompletion ==
    [][(Handled /\ Completion(rx.pkt) /\ dev.sent_cmd = NULL)
          => (/\ rx'.pc = "wait"
              /\ sync_sem' = sync_sem
              /\ free_bufs' = PoolAdd(free_bufs, rx.buf)
              /\ dev'.sent_cmd = NULL)]_vars

\* C6: for every completion the RX fiber processes, the credit semaphore is
\* given once and ncmd becomes 1 if the event's ncmd is > 0 and dev.ncmd was
\* 0; otherwise the semaphore is not given and ncmd is unchanged.
C6_CreditRefill ==
    [][(Handled /\ Completion(rx.pkt))
          => IF rx.pkt.encmd > 0 /\ dev.ncmd = 0
             THEN dev'.ncmd = 1 /\ dev'.ncmd_sem = dev.ncmd_sem + 1
             ELSE dev'.ncmd = dev.ncmd /\ dev'.ncmd_sem = dev.ncmd_sem]_vars

LeChecked == ini.pc = "le_check" /\ ini'.pc # "le_check"

\* C9: hci_init returns -ENODEV after the READ_BD_ADDR barrier if
\* and only if the LE bit of features[4] is clear, whatever the NO_BREDR bit;
\* otherwise it goes on to LE_READ_LOCAL_FEATURES.
C9_NoDeviceIffNotLe ==
    [][LeChecked =>
          IF BT_LMP_LE \notin dev.features4
          THEN ini'.pc = "done" /\ ini'.ret = "ENODEV"
          ELSE ini'.pc = "le_features" /\ ini'.ret = "NONE"]_vars

\* hci_init returned -ENODEV for a controller with NO_BREDR set and LE clear
C9_Witness ==
    ini.pc = "done" /\ ini.ret = "ENODEV" /\ dev.features4 = {BT_LMP_NO_BREDR}

\* C9, in the words of the specification: -ENODEV if and only if both the NO_BREDR bit and the LE bit
\* of features[4] are clear.
C9_Original ==
    [][LeChecked =>
          IF /\ BT_LMP_NO_BREDR \notin dev.features4
             /\ BT_LMP_LE \notin dev.features4
          THEN ini'.pc = "done" /\ ini'.ret = "ENODEV"
          ELSE ini'.pc = "le_features" /\ ini'.ret = "NONE"]_vars

\* C10: with the free pool empty, bt_hci_cmd_send(op, NULL) and
\* bt_hci_cmd_send_sync(op, NULL) return -ENOBUFS at once: the caller does not
\* block, and free_bufs, cmd_queue, ncmd and sent_cmd are unchanged.
C10_Exhaustion ==
    [][\A t \in Tasks :
          (free_bufs = <<>> /\ (TaskSend(t) \/ TaskSendSync(t)))
              => (/\ ret' = "ENOBUFS"
                  /\ task'[t] = "idle"
                  /\ UNCHANGED <<free_bufs, cmd_queue, dev, bufs>>)]_vars

\* the pool is empty and a call has returned -ENOBUFS
C10_Witness == free_bufs = <<>> /\ ret = "ENOBUFS"

\* the step of hci_init that tries to get a buffer for SET_EVENT_MASK, for
\* READ_BUFFER_SIZE (sent when the controller is BR/EDR capable and le_mtu
\* is 0) or for LE_WRITE_LE_HOST_SUPP
InitAcquires ==
    /\ ini'.pc # ini.pc
    /\ \/ ini.pc \in {"evmask", "lehs"}
       \/ ini.pc = "bredr" /\ lmp_bredr_capable(dev) /\ dev.le_mtu = 0

\* C11: when hci_init finds the pool empty as it tries to get the buffer of
\* SET_EVENT_MASK, READ_BUFFER_SIZE or LE_WRITE_LE_HOST_SUPP, it returns
\* -ENOBUFS there and issues no further command.
C11_NoBufferAborts ==
    [][(InitAcquires /\ free_bufs = <<>>)
          => (/\ ini'.pc = "done"
              /\ ini'.ret = "ENOBUFS"
              /\ cmd_queue' = cmd_queue)]_vars

\* C12: bt_driver_register returns -EALREADY and leaves dev.drv as it is when
\* a driver is registered, else returns -EINVAL and leaves it empty when the
\* driver lacks open or send, else stores the driver and returns 0; dev.drv
\* is never a driver without open or send; bt_init with dev.drv empty returns
\* -ENODEV with the fifos untouched and no fiber started.
C12_DriverBinding ==
    [][/\ \A drv \in DOMAIN Drivers :
             DriverRegister(drv) =>
                 IF dev.drv # NULL
                 THEN ret' = "EALREADY" /\ dev'.drv = dev.drv
                 ELSE IF ~(Drivers[drv].open /\ Drivers[drv].send)
                 THEN ret' = "EINVAL" /\ dev'.drv = NULL
                 ELSE ret' = "OK" /\ dev'.drv = drv
       /\ (BtInit /\ dev.drv = NULL) =>
             (/\ ini'.ret = "ENODEV"
              /\ ini'.pc = "off"
              /\ UNCHANGED <<free_bufs, cmd_queue, rx_queue, dev, cmd, rx>>)
       /\ (dev'.drv # NULL =>
              Drivers[dev'.drv].open /\ Drivers[dev'.drv].send)]_vars

\* bt_init has returned -ENODEV with no driver registered; a driver was then
\* registered and a second registration refused with -EALREADY
C12_Witness ==
    /\ ini.ret = "ENODEV"
    /\ cmd.pc = "off"
    /\ dev.drv # NULL
    /\ ret = "EALREADY"

\* C13: the view of a buffer stays inside the buffer: headroom >= 0,
\* len >= 0 and headroom + len <= BT_BUF_MAX_DATA, so that headroom, len and
\* tailroom are three non-negative parts of the capacity.
C13_ViewBounds ==
    /\ bt_buf_headroom(view) >= 0
    /\ view.len >= 0
    /\ bt_buf_headroom(view) + view.len <= BT_BUF_MAX_DATA
    /\ bt_buf_tailroom(view) >= 0

(***************************************************************************)
(* The response parsers alone: any Command Complete of any opcode, with    *)
(* any status and return parameters, goes through the switch of            *)
(* hci_cmd_complete.                                                       *)
(***************************************************************************)
\* values of acl_max_num (16 bits) and le_max_num (8 bits) a controller
\* reports
AclNumVals == {0, 4, 260}

LeNumVals == {0, 4}

\* values of the other return parameters: version information, BD_ADDR,
\* LE feature page, acl_max_len, le_max_len
ParamVals == {0, 27}

ParseOps == InitOps \cup {"VENDOR"}

\* the Command Completes of one opcode
ParsePackets(op) ==
    IF op = "READ_LOCAL_FEATURES"
    THEN {Packet("EVT", "CMD_COMPLETE", op, 1, st, v) :
              st \in StatusVals, v \in FeatureVals}
    ELSE {[Packet("EVT", "CMD_COMPLETE", op, 1, st, v) EXCEPT !.num = n] :
              st \in StatusVals, v \in ParamVals,
              n \in IF op = "READ_BUFFER_SIZE" THEN AclNumVals
                    ELSE LeNumVals}

ParseComplete(pkt) ==
    /\ dev' = hci_cmd_complete_switch(Mem, pkt).dev
    /\ UNCHANGED <<free_bufs, bufs, cmd_queue, rx_queue, cmd, rx, task, ret,
                   sync_sem, ini, held, ctl, hist, view>>

NextParse ==
    \E op \in ParseOps : \E pkt \in ParsePackets(op) : ParseComplete(pkt)

SpecParse == Init /\ [][NextParse]_vars

\* the record of the controller after a Command Complete, as tabulated
Tabulated(d, pkt) ==
    LET op == pkt.eop
    IN CASE op = "READ_LOCAL_VERSION_INFO" /\ pkt.status = 0 ->
                [d EXCEPT !.version = pkt.val]
         [] op = "READ_BD_ADDR" /\ pkt.status = 0 ->
                [d EXCEPT !.bdaddr = pkt.val]
         [] op = "LE_READ_BUFFER_SIZE" /\ pkt.status = 0 ->
                [d EXCEPT !.le_mtu = pkt.val, !.le_pkts = pkt.num]
         [] op = "READ_BUFFER_SIZE" /\ pkt.status = 0 /\ d.le_mtu = 0 ->
                [d EXCEPT !.le_mtu = pkt.val, !.le_pkts = pkt.num]
         [] op = "READ_LOCAL_FEATURES" -> [d EXCEPT !.features4 = pkt.val]
         [] op = "LE_READ_LOCAL_FEATURES" ->
                [d EXCEPT !.le_features = pkt.val]
         [] OTHER -> d

\* C14: a Command Complete changes the record of the controller exactly as
\* tabulated for its opcode: READ_LOCAL_VERSION_INFO, READ_BD_ADDR and
\* LE_READ_BUFFER_SIZE write their fields when status is 0, READ_BUFFER_SIZE
\* writes le_mtu = acl_max_len and le_pkts = acl_max_num when status is 0
\* and le_mtu is 0, the two feature commands write whatever the status,
\* RESET and other opcodes write nothing; every other field is unchanged.
C14_Parsers ==
    [][\A op \in ParseOps : \A pkt \in ParsePackets(op) :
           ParseComplete(pkt) => dev' = Tabulated(dev, pkt)]_vars

\* the opcodes of the commands waiting on cmd_queue
Queued == {bufs[cmd_queue[i]].opcode : i \in 1 .. Len(cmd_queue)}

\* the command fiber hands a command of this opcode to drv->send
WireSend(op) == Len(ctl') = Len(ctl) + 1 /\ ctl'[Len(ctl')] = op

\* hci_init passes the test of lmp_bredr_capable and of dev.le_mtu
Decision == ini.pc = "bredr" /\ ini'.pc # "bredr"

\* hci_init returns 0
Returns == ini.pc # "done" /\ ini'.pc = "done" /\ ini'.ret = "OK"

\* the RX fiber handles the Command Complete of READ_BUFFER_SIZE
BufSizeCompletion ==
    /\ rx.pc = "handle"
    /\ rx'.pc # "handle"
    /\ rx.pkt.evt = "CMD_COMPLETE"
    /\ rx.pkt.eop = "READ_BUFFER_SIZE"

\* C15: hci_init decides on READ_BUFFER_SIZE only after the completion of
\* LE_READ_BUFFER_SIZE was processed; with a BR/EDR capable controller and
\* le_mtu = 0 it issues READ_BUFFER_SIZE, which goes to the driver before
\* LE_WRITE_LE_HOST_SUPP; a successful completion stores acl_max_len in
\* le_mtu, it has been processed when hci_init returns 0 and le_mtu is not
\* written after it; with a controller that is not BR/EDR capable neither
\* command is ever issued.
C15_DualMode ==
    [][/\ Decision => "LE_READ_BUFFER_SIZE" \in hist.seen
       /\ (Decision /\ BT_LMP_NO_BREDR \notin dev.features4 /\ dev.le_mtu = 0)
             => (/\ Len(cmd_queue') = Len(cmd_queue) + 1
                 /\ bufs'[cmd_queue'[Len(cmd_queue')]].opcode
                       = "READ_BUFFER_SIZE"
                 /\ ini'.pc = "lehs")
       /\ WireSend("LE_WRITE_LE_HOST_SUPP") => "READ_BUFFER_SIZE" \notin Queued
       /\ (BufSizeCompletion /\ rx.pkt.status = 0 /\ dev.le_mtu = 0)
             => dev'.le_mtu = rx.pkt.val
       /\ "READ_BUFFER_SIZE" \in hist.seen => dev'.le_mtu = dev.le_mtu
       /\ Returns =>
             (/\ "READ_BUFFER_SIZE" \notin Queued
              /\ \A i \in 1 .. Len(ctl) : ctl[i] # "READ_BUFFER_SIZE"
              /\ \A i \in 1 .. Len(rx_queue) :
                    bufs[rx_queue[i]].wire # "READ_BUFFER_SIZE"
              /\ rx.pkt.eop # "READ_BUFFER_SIZE")
       /\ (Decision /\ BT_LMP_NO_BREDR \in dev.features4)
             => (ini'.pc = "done" /\ cmd_queue' = cmd_queue)
       /\ \A op \in {"READ_BUFFER_SIZE", "LE_WRITE_LE_HOST_SUPP"} :
             WireSend(op) => BT_LMP_NO_BREDR \notin dev.features4]_vars

\* the RX fiber ends its work on the buffer it dequeued
RxDone == rx.pc = "handle" /\ rx'.pc # "handle"

\* C16: when the RX fiber ends its work on a buffer, whatever the buffer
\* holds, the buffer has gone back to the free pool once and the fiber waits
\* on rx_queue for the next one; an ACL packet or an event that is neither
\* Command Complete nor Command Status leaves dev (ncmd, sent_cmd, the record
\* of the controller) as it was.
C16_RxRelease ==
    [][RxDone =>
          (/\ \A i \in DOMAIN free_bufs : free_bufs[i] # rx.buf
           /\ Cardinality({i \in DOMAIN free_bufs' : free_bufs'[i] = rx.buf})
                 = 1
           /\ rx'.pc = "wait"
           /\ (rx.pkt.type = "ACL"
                  \/ (rx.pkt.type = "EVT"
                         /\ rx.pkt.evt \notin {"CMD_COMPLETE", "CMD_STATUS"}))
                 => dev' = dev)]_vars

\* both fibers have run to their next wait and the controller has answered
\* what it was sent: the RX fiber waits on an empty rx_queue, the command
\* fiber waits on ncmd_sem or on cmd_queue
AtWait ==
    /\ rx.pc = "wait"
    /\ rx_queue = <<>>
    /\ ctl = <<>>
    /\ \/ cmd.pc = "sem" /\ dev.ncmd_sem = 0
       \/ cmd.pc = "get" /\ cmd_queue = <<>>

\* C17: when hci_init has returned 0 and the fibers have run to their next
\* wait, ncmd is 1 and one credit is available to the command fiber (on
\* ncmd_sem, or taken by the fiber that now waits on cmd_queue), sent_cmd is
\* empty, cmd_queue and rx_queue are empty and all NUM_BUFS buffers are in the
\* free pool.
C17_FinalState ==
    (ini.pc = "done" /\ ini.ret = "OK" /\ AtWait)
        => (/\ dev.ncmd = 1
            /\ dev.ncmd_sem + (IF cmd.pc = "get" THEN 1 ELSE 0) = 1
            /\ dev.sent_cmd = NULL
            /\ cmd_queue = <<>>
            /\ rx_queue = <<>>
            /\ Len(free_bufs) = NUM_BUFS
            /\ \A b \in BufIds : Places(b) = 1)

\* the opcodes of the completions still to be processed: commands the
\* controller has not answered yet, events on rx_queue, the event in the
\* hands of the RX fiber
Pending ==
    {ctl[i] : i \in 1 .. Len(ctl)}
    \cup {bufs[rx_queue[i]].wire : i \in 1 .. Len(rx_queue)}
    \cup (IF rx.pc = "handle" THEN {rx.pkt.eop} ELSE {})

\* C18: when the RX fiber processes the completion of the command that is in
\* the hands of drv->send, sent_cmd refers to the buffer of that command; and
\* when drv->send returns and the command is recorded as sent_cmd, its
\* completion is still to be processed.
C18_SentBeforeCompletion ==
    [][/\ (RxDone /\ rx.pkt.type = "EVT"
              /\ rx.pkt.evt \in {"CMD_COMPLETE", "CMD_STATUS"}
              /\ cmd.pc = "send" /\ bufs[cmd.buf].opcode = rx.pkt.eop)
             => dev.sent_cmd = cmd.buf
       /\ (cmd.pc = "send" /\ cmd'.pc # "send")
             => bufs[cmd.buf].opcode \in Pending]_vars

\* the credit as cmd_queue_init leaves it and the two fibers keep it
CreditGate ==
    /\ dev.ncmd_sem \in {0, 1}
    /\ dev.ncmd \in {0, 1}
    /\ dev.ncmd = 1 <=> (dev.ncmd_sem = 1 \/ cmd.pc = "get")

\* C19: in every state ncmd_sem is 0 or 1 and ncmd is 0 or 1, and ncmd is 1
\* exactly when ncmd_sem is 1 or the command fiber has taken the credit and
\* waits on cmd_queue; ncmd becomes 0 only when the command fiber dequeues a
\* command and becomes 1 again only with a refill that gives ncmd_sem.
C19_CreditGate ==
    [][/\ CreditGate
       /\ CreditGate'
       /\ (dev.ncmd = 1 /\ dev'.ncmd = 0)
             => (cmd.pc = "get" /\ Len(cmd_queue') = Len(cmd_queue) - 1)
       /\ (dev.ncmd = 0 /\ dev'.ncmd = 1)
             => (RxDone /\ rx.pkt.encmd # 0
                    /\ dev'.ncmd_sem = dev.ncmd_sem + 1)]_vars

\* a command went to the driver, ncmd was 0, and a completion has refilled
\* the credit: ncmd is 1 again and ncmd_sem holds the credit
C19_Witness ==
    /\ hist.sent # <<>>
    /\ dev.ncmd = 1
    /\ dev.ncmd_sem = 1
    /\ cmd.pc = "sem"

(***************************************************************************)
(* Bring-up under fair scheduling: each fiber runs when it can (fibers run  *)
(* before the task whenever they are ready), the task running hci_init     *)
(* goes on when it can, a driver that yields in send returns, and the      *)
(* controller answers each command when the transport can get a buffer.    *)
(***************************************************************************)
HciInitStep ==
    \/ HciInitSend
    \/ HciInitBdAddr
    \/ HciInitWake
    \/ HciInitLeCheck
    \/ HciInitEvMask
    \/ HciInitBufSize
    \/ HciInitHostSupp
    \/ HciInitLeOnly

Fairness ==
    /\ WF_vars(HciInitStep)
    /\ WF_vars(CmdTakeCredit)
    /\ WF_vars(CmdSendWire)
    /\ WF_vars(CmdSendReturn)
    /\ WF_vars(ControllerAnswer)
    /\ WF_vars(RxGet)
    /\ WF_vars(RxHandle)

SpecBringupFair == InitBringup /\ [][NextBringup]_vars /\ Fairness

\* buffer b holds a command waiting on cmd_queue
OnCmdQueue(b) == \E i \in DOMAIN cmd_queue : cmd_queue[i] = b

InPool(b) == \E i \in DOMAIN free_bufs : free_bufs[i] = b

\* C20: under fair scheduling, with a controller that answers each command
\* once, every command put on cmd_queue is handed to drv->send and its
\* buffer comes back to the free pool, every bt_hci_cmd_send_sync that waits
\* returns, and hci_init returns.
C20_Progress ==
    /\ \A b \in BufIds : OnCmdQueue(b) ~> (~OnCmdQueue(b))
    /\ \A b \in BufIds : OnCmdQueue(b) ~> InPool(b)
    /\ (ini.pc \in DOMAIN WakeNext) ~> (ini.pc \notin DOMAIN WakeNext)
    /\ <>(ini.pc = "done")

====
